---- MODULE Spec2Model ----
(***************************************************************************)
(* The allocation history validator of udoprog/checkers: the event log     *)
(* (Events, src/src/events.rs), the validating machine (Machine,           *)
(* src/src/machine.rs) and the violations they produce                     *)
(* (src/src/violation.rs).                                                 *)
(*                                                                         *)
(* Machine::push in src/src/machine.rs names its event arms Allocation and *)
(* Deallocation and its errors AllocationMisaligned, AllocationOverlaps,   *)
(* DeallocateIncomplete, DeallocateMisaligned, DeallocateMissing and       *)
(* DanglingRegion; Events::validate and src/src/violation.rs name the same *)
(* things Alloc, Free, MisalignedAlloc, ConflictingAlloc, IncompleteFree,  *)
(* MisalignedFree, MissingFree and Leaked.  The model uses the second set  *)
(* of names for the tags and the code of Machine::push for the behaviour.  *)
(***************************************************************************)
EXTENDS Integers, Sequences, FiniteSets, TLC

(***************************************************************************)
(* Bounds of the model.                                                    *)
(***************************************************************************)
\* Addresses are 0..MaxPtr; MaxPtr also stands for usize::MAX, the value at
\* which Pointer::saturating_add saturates.
MaxPtr == 2
\* Region sizes are 0..MaxSize.
MaxSize == 2
\* Alignments are the powers of two 2^0 .. 2^MaxAlignLog (what a Layout holds).
MaxAlignLog == 1
\* Longest event log of one measurement window.
MaxEvents == 3
\* Most calls of validate on one recorded window.
MaxCalls == 2
\* A machine is pushed into while its memory_used is at most MaxUsed.
MaxUsed == 6

RECURSIVE Pow2(_)
Pow2(k) == IF k = 0 THEN 1 ELSE 2 * Pow2(k - 1)

Pointers == 0..MaxPtr
Sizes == 0..MaxSize
Aligns == {Pow2(k) : k \in 0..MaxAlignLog}

(***************************************************************************)
(* Pointer (src/src/lib.rs).                                               *)
(***************************************************************************)
saturating_add(p, n) == IF p + n > MaxPtr THEN MaxPtr ELSE p + n

\* Faulty variant of is_aligned_with: the operands of % exchanged.
is_aligned_with_swapped(p, n) == p = 0 \/ n % p = 0

is_aligned_with(p, n) == p % n = 0

(***************************************************************************)
(* Region (src/src/machine.rs).                                            *)
(***************************************************************************)
Region(ptr, size, align) == [ptr |-> ptr, size |-> size, align |-> align]

Regions == {Region(p, s, a) : p \in Pointers, s \in Sizes, a \in Aligns}

\* Region::new takes any usize as the alignment, zero included
AnyAlignRegions ==
    {Region(p, s, a) : p \in Pointers, s \in Sizes, a \in Aligns \cup {0}}

\* Faulty variant of overlaps: the upper bound is excluded, so a region
\* without bytes overlaps nothing, a request at its own address included.
overlaps_below_end(self, other) ==
    self.ptr <= other.ptr /\ other.ptr < saturating_add(self.ptr, self.size)

overlaps(self, other) ==
    self.ptr <= other.ptr /\ other.ptr <= saturating_add(self.ptr, self.size)

\* Faulty variant of is_same_region_as: the sizes are not compared.
is_same_region_as_any_size(self, other) == self.ptr = other.ptr

is_same_region_as(self, other) ==
    self.ptr = other.ptr /\ self.size = other.size

(***************************************************************************)
(* Event (src/src/event.rs): the variants Machine::push has an arm for.    *)
(* A Request is modelled by its region; the backtrace is display-only.     *)
(***************************************************************************)
Alloc(request) == [type |-> "Alloc", request |-> request]
Free(request) == [type |-> "Free", request |-> request]

Event == {Alloc(r) : r \in Regions} \cup {Free(r) : r \in Regions}

\* Option<bool>, the outcome of a check the collaborator may have skipped
Yes == "Some(true)"
No == "Some(false)"
Unknown == "None"
TriState == {Yes, No, Unknown}

\* The other variants of Event.  Realloc carries two plain regions; the
\* ReallocNull event carries only a backtrace.
AllocZeroed(is_zeroed, request) ==
    [type |-> "AllocZeroed", is_zeroed |-> is_zeroed, request |-> request]
Realloc(is_relocated, free, alloc) ==
    [type |-> "Realloc", is_relocated |-> is_relocated, free |-> free, alloc |-> alloc]
AllocFailed == [type |-> "AllocFailed"]
AllocZeroedFailed == [type |-> "AllocZeroedFailed"]
ReallocNull == [type |-> "ReallocNull"]
ReallocFailed == [type |-> "ReallocFailed"]

\* Event::is_failed
is_failed(e) == e.type \in {"AllocFailed", "AllocZeroedFailed", "ReallocFailed"}

FailedEvents == {AllocFailed, AllocZeroedFailed, ReallocFailed}
AllocZeroedEvents == {AllocZeroed(z, r) : z \in TriState, r \in Regions}
ReallocEvents == {Realloc(c, f, a) : c \in TriState, f \in Regions, a \in Regions}

\* the events of a recorded window: Alloc and Free of every region, the
\* events without a region, and AllocZeroed of the byte-aligned regions that
\* hold at least one byte
WindowEvents ==
    Event \cup FailedEvents \cup {ReallocNull}
          \cup {AllocZeroed(z, r) : z \in TriState,
                                    r \in {x \in Regions : x.align = 1 /\ x.size > 0}}

\* Alloc and Free of regions of any alignment
AnyAlignEvents ==
    {Alloc(r) : r \in AnyAlignRegions} \cup {Free(r) : r \in AnyAlignRegions}

\* every value of Event over the modelled regions
AllEvents ==
    Event \cup AllocZeroedEvents \cup ReallocEvents \cup FailedEvents \cup {ReallocNull}

(***************************************************************************)
(* Violation (src/src/violation.rs) and the result of Machine::push.       *)
(***************************************************************************)
\* no call of Machine::push is waiting to be looked at
NoEvent == [type |-> "None"]
NoResult == [tag |-> "None"]

Ok == [tag |-> "Ok"]
Panic == [tag |-> "Panic"]
MisalignedAlloc(alloc) == [tag |-> "MisalignedAlloc", alloc |-> alloc]
ConflictingAlloc(request, existing) ==
    [tag |-> "ConflictingAlloc", request |-> request, existing |-> existing]
IncompleteFree(request, existing) ==
    [tag |-> "IncompleteFree", request |-> request, existing |-> existing]
MisalignedFree(request, existing) ==
    [tag |-> "MisalignedFree", request |-> request, existing |-> existing]
MissingFree(request) == [tag |-> "MissingFree", request |-> request]
Leaked(alloc) == [tag |-> "Leaked", alloc |-> alloc]
NonZeroedAlloc(alloc) == [tag |-> "NonZeroedAlloc", alloc |-> alloc]
NonCopiedRealloc(realloc) == [tag |-> "NonCopiedRealloc", realloc |-> realloc]
ReallocNullViolation == [tag |-> "ReallocNull"]

VARIABLES
    debug_assertions, \* cfg!(debug_assertions) of the build
    data,             \* Events.data, the recorded events
    errors,           \* the caller's Vec<Violation> handed to validate
    op,               \* the last operation on the log and its argument
    ncalls,           \* validate calls made on the recorded window
    capacity,         \* Events.data.capacity()
    pushed,           \* the events pushed since the log was last empty
    regions,          \* Machine.regions: address -> live Region
    memory_used,      \* Machine.memory_used
    event,            \* the event of the Machine::push that has just returned
    result,           \* what that Machine::push returned
    freed,            \* addresses whose last successful push was a Free
    muted,            \* the thread's MUTED flag
    scopes            \* the open mute scopes, innermost last

vars == <<debug_assertions, data, capacity, pushed, errors, op, ncalls,
          regions, memory_used, event, result, freed, muted, scopes>>

(***************************************************************************)
(* BTreeMap<Pointer, Region>: a function from the keys to the regions,     *)
(* iterated in ascending key order.                                        *)
(***************************************************************************)
EmptyMap == [p \in {} |-> Region(0, 0, 1)]

\* the keys of the address space in ascending order
Addresses == [i \in 1..(MaxPtr + 1) |-> i - 1]

\* regions.range(lo..=hi) as the sequence of its values
Range(map, lo, hi) ==
    LET InRange(k) == k \in DOMAIN map /\ lo <= k /\ k <= hi
        keys == SelectSeq(Addresses, InRange)
    IN [i \in 1..Len(keys) |-> map[keys[i]]]

\* BTreeMap::insert
Insert(map, key, value) ==
    [k \in DOMAIN map \cup {key} |-> IF k = key THEN value ELSE map[k]]

\* Faulty variant of Remove: the entry stays in the map.
Remove_keeps(map, key) == map

\* Entry::remove_entry
Remove(map, key) == [k \in DOMAIN map \ {key} |-> map[k]]

(***************************************************************************)
(* Machine (src/src/machine.rs).                                           *)
(***************************************************************************)
MachineDefault == EmptyMap

\* Iterator::take_while(|r| r.overlaps(needle))
TakeWhileOverlaps(seq, needle) ==
    LET n == CHOOSE k \in 0..Len(seq) :
                 /\ \A i \in 1..k : overlaps(seq[i], needle)
                 /\ (k < Len(seq) => ~overlaps(seq[k + 1], needle))
    IN SubSeq(seq, 1, n)

find_region_overlaps(map, needle) ==
    LET head == TakeWhileOverlaps(Range(map, 0, needle.ptr), needle)
        tail == TakeWhileOverlaps(Range(map, needle.ptr, MaxPtr), needle)
    IN head \o tail

\* debug_assert!(self.regions.insert(ptr, requested).is_none()): the argument
\* is evaluated only in a build with debug assertions.
DebugAssertInsert(map, requested) ==
    IF debug_assertions
    THEN [regions |-> Insert(map, requested.ptr, requested),
          result |-> IF requested.ptr \in DOMAIN map THEN Panic ELSE Ok]
    ELSE [regions |-> map, result |-> Ok]

\* Faulty variant of entry: the lookup also finds a region that merely
\* contains ptr (matching a free by overlap instead of by key).
entry_containing(map, ptr) ==
    LET holding == {k \in DOMAIN map :
                       k = ptr \/ (k <= ptr /\ ptr < k + map[k].size)}
    IN IF holding = {} THEN <<>>
       ELSE <<map[CHOOSE k \in holding : \A j \in holding : j <= k]>>

\* self.regions.entry(ptr): <<existing>> when Occupied, <<>> when Vacant
entry(map, ptr) == IF ptr \in DOMAIN map THEN <<map[ptr]>> ELSE <<>>

\* Faulty variant of Allocation: the overlap search comes before the
\* alignment check.
Allocation_overlap_first(map, requested) ==
    IF requested.align = 0 THEN [regions |-> map, result |-> Panic]
    ELSE LET found == find_region_overlaps(map, requested) IN
         IF found # <<>>
         THEN [regions |-> map, result |-> ConflictingAlloc(requested, found[1])]
         ELSE IF ~is_aligned_with(requested.ptr, requested.align)
         THEN [regions |-> map, result |-> MisalignedAlloc(requested)]
         ELSE DebugAssertInsert(map, requested)

\* Faulty variant of Allocation: the requested region is inserted before the
\* overlap is reported.
Allocation_inserts_on_conflict(map, requested) ==
    IF requested.align = 0 THEN [regions |-> map, result |-> Panic]
    ELSE IF ~is_aligned_with(requested.ptr, requested.align)
    THEN [regions |-> map, result |-> MisalignedAlloc(requested)]
    ELSE LET found == find_region_overlaps(map, requested) IN
         IF found # <<>>
         THEN [regions |-> Insert(map, requested.ptr, requested),
               result |-> ConflictingAlloc(requested, found[1])]
         ELSE DebugAssertInsert(map, requested)

\* The Alloc arm of Machine::push: the machine afterwards and the returned
\* value.  Pointer::is_aligned_with divides by the alignment.
Allocation(map, requested) ==
    IF requested.align = 0 THEN [regions |-> map, result |-> Panic]
    ELSE IF ~is_aligned_with(requested.ptr, requested.align)
    THEN [regions |-> map, result |-> MisalignedAlloc(requested)]
    ELSE LET found == find_region_overlaps(map, requested) IN
         IF found # <<>>
         THEN [regions |-> map, result |-> ConflictingAlloc(requested, found[1])]
         ELSE DebugAssertInsert(map, requested)

\* Faulty variant of Deallocation: the alignments are not compared.
Deallocation_any_align(map, requested) ==
    LET occupied == entry(map, requested.ptr) IN
    IF occupied # <<>> THEN
        LET existing == occupied[1] IN
        IF ~is_same_region_as(existing, requested)
        THEN [regions |-> map, result |-> IncompleteFree(requested, existing)]
        ELSE [regions |-> Remove(map, requested.ptr), result |-> Ok]
    ELSE [regions |-> map, result |-> MissingFree(requested)]

\* The Free arm of Machine::push.
Deallocation(map, requested) ==
    LET occupied == entry(map, requested.ptr) IN
    IF occupied # <<>> THEN
        LET existing == occupied[1] IN
        IF ~is_same_region_as(existing, requested)
        THEN [regions |-> map, result |-> IncompleteFree(requested, existing)]
        ELSE IF existing.align # requested.align
        THEN [regions |-> map, result |-> MisalignedFree(requested, existing)]
        ELSE [regions |-> Remove(map, requested.ptr), result |-> Ok]
    ELSE [regions |-> map, result |-> MissingFree(requested)]

\* Machine::push
push(map, e) ==
    IF e.type = "Alloc" THEN Allocation(map, e.request)
    ELSE Deallocation(map, e.request)

\* Faulty variant of trailing_regions: the region at the lowest address of
\* the address space is left out.
trailing_regions_above_zero(map) == Range(map, 1, MaxPtr)

\* Machine::trailing_regions: regions.values() in key order
trailing_regions(map) == Range(map, 0, MaxPtr)

(***************************************************************************)
(* The machine with the memory_used counter that Events::max_memory_used   *)
(* reads, and the arms of Machine::push for the event variants other than  *)
(* Alloc and Free.  The Alloc and Free arms are Allocation and             *)
(* Deallocation above; the counter and the other arms follow the           *)
(* transition rules of the Ledger.                                         *)
(***************************************************************************)
Machine(rs, used) == [regions |-> rs, memory_used |-> used]

\* Alloc: the checks and the insert of the Alloc arm; a successful Alloc adds
\* the size to memory_used.
alloc(self, request) ==
    LET r == Allocation(self.regions, request) IN
    [machine |-> Machine(r.regions,
                         IF r.result = Ok
                         THEN self.memory_used + request.size
                         ELSE self.memory_used),
     result |-> r.result]

\* Free: the checks and the removal of the Free arm; a successful Free
\* subtracts the size from memory_used.
free(self, request) ==
    LET r == Deallocation(self.regions, request) IN
    [machine |-> Machine(r.regions,
                         IF r.result = Ok
                         THEN self.memory_used - request.size
                         ELSE self.memory_used),
     result |-> r.result]

\* Faulty variant of alloc_zeroed: the region is recorded as an Alloc first
\* and the missing zeroing is reported afterwards.
alloc_zeroed_recorded(self, e) ==
    LET a == alloc(self, e.request) IN
    IF a.result = Ok /\ e.is_zeroed = No
    THEN [machine |-> a.machine, result |-> NonZeroedAlloc(e.request)]
    ELSE a

\* Faulty variant of alloc_zeroed: a check that was not performed counts as
\* a failed check.
alloc_zeroed_unknown_fails(self, e) ==
    IF e.is_zeroed # Yes
    THEN [machine |-> self, result |-> NonZeroedAlloc(e.request)]
    ELSE alloc(self, e.request)

\* AllocZeroed: refused when the region was seen not to be zeroed, otherwise
\* an Alloc.
alloc_zeroed(self, e) ==
    IF e.is_zeroed = No
    THEN [machine |-> self, result |-> NonZeroedAlloc(e.request)]
    ELSE alloc(self, e.request)

\* Faulty variant of realloc: the old region is freed before the copy is
\* looked at.
realloc_free_first(self, e) ==
    LET f == free(self, e.free) IN
    IF f.result # Ok THEN f
    ELSE IF e.is_relocated = No
    THEN [machine |-> f.machine, result |-> NonCopiedRealloc(e)]
    ELSE alloc(f.machine, e.alloc)

\* Faulty variant of realloc: the alloc is applied even when the free failed.
realloc_alloc_anyway(self, e) ==
    IF e.is_relocated = No
    THEN [machine |-> self, result |-> NonCopiedRealloc(e)]
    ELSE LET f == free(self, e.free)
             a == alloc(f.machine, e.alloc)
         IN IF f.result # Ok THEN [machine |-> a.machine, result |-> f.result]
            ELSE a

\* Realloc: refused when the contents were seen not to be copied, otherwise
\* the Free of the old region followed by the Alloc of the new one, the
\* first failure returned.
realloc(self, e) ==
    IF e.is_relocated = No
    THEN [machine |-> self, result |-> NonCopiedRealloc(e)]
    ELSE LET f == free(self, e.free)
         IN IF f.result # Ok THEN f ELSE alloc(f.machine, e.alloc)

\* Faulty variant of LedgerPush: a failed request is reported like a
\* reallocation of a null pointer.
LedgerPush_failed_is_error(self, e) ==
    CASE e.type = "Alloc" -> alloc(self, e.request)
      [] e.type = "Free" -> free(self, e.request)
      [] e.type = "AllocZeroed" -> alloc_zeroed(self, e)
      [] e.type = "Realloc" -> realloc(self, e)
      [] OTHER -> [machine |-> self, result |-> ReallocNullViolation]

\* Faulty variant of LedgerPush: a reallocation of a null pointer is let
\* through like a failed request.
LedgerPush_null_is_ok(self, e) ==
    CASE e.type = "Alloc" -> alloc(self, e.request)
      [] e.type = "Free" -> free(self, e.request)
      [] e.type = "AllocZeroed" -> alloc_zeroed(self, e)
      [] e.type = "Realloc" -> realloc(self, e)
      [] OTHER -> [machine |-> self, result |-> Ok]

\* Machine::push for every variant of Event
LedgerPush(self, e) ==
    CASE e.type = "Alloc" -> alloc(self, e.request)
      [] e.type = "Free" -> free(self, e.request)
      [] e.type = "AllocZeroed" -> alloc_zeroed(self, e)
      [] e.type = "Realloc" -> realloc(self, e)
      [] e.type = "ReallocNull" -> [machine |-> self, result |-> ReallocNullViolation]
      [] is_failed(e) -> [machine |-> self, result |-> Ok]

(***************************************************************************)
(* Events (src/src/events.rs).                                             *)
(***************************************************************************)
\* Faulty variant of Replay: a violation is put in front of the list.
RECURSIVE Replay_in_front(_, _, _)
Replay_in_front(map, evs, out) ==
    IF evs = <<>> THEN [regions |-> map, errors |-> out]
    ELSE LET r == push(map, Head(evs))
         IN Replay_in_front(r.regions, Tail(evs),
                            IF r.result = Ok THEN out ELSE <<r.result>> \o out)

\* The first loop of validate: every event pushed in order into the machine,
\* every Err appended to the output list.
RECURSIVE Replay(_, _, _)
Replay(map, evs, out) ==
    IF evs = <<>> THEN [regions |-> map, errors |-> out]
    ELSE LET r == push(map, Head(evs))
         IN Replay(r.regions, Tail(evs),
                   IF r.result = Ok THEN out ELSE Append(out, r.result))

\* The second loop of validate: one Leaked per trailing region.
LeakSweep(map) ==
    LET trailing == trailing_regions(map)
    IN [i \in 1..Len(trailing) |-> Leaked(trailing[i])]

\* Events::validate over a log of any events: the list with what the call
\* appends, and the machine when it returns.
RECURSIVE ReplayLedger(_, _, _)
ReplayLedger(machine, evs, out) ==
    IF evs = <<>> THEN [machine |-> machine, errors |-> out]
    ELSE LET r == LedgerPush(machine, Head(evs))
         IN ReplayLedger(r.machine, Tail(evs),
                         IF r.result = Ok THEN out ELSE Append(out, r.result))

validate(evs, out) ==
    LET r == ReplayLedger(Machine(MachineDefault, 0), evs, out)
    IN [machine |-> r.machine,
        errors |-> r.errors \o LeakSweep(r.machine.regions)]

\* Result<usize, Violation>
OkValue(n) == [tag |-> "Ok", value |-> n]
Err(v) == [tag |-> "Err", error |-> v]

usize_max(a, b) == IF a >= b THEN a ELSE b

\* Faulty variant of MaxFold: a failed push is skipped and the replay goes on.
RECURSIVE MaxFold_lenient(_, _, _)
MaxFold_lenient(machine, evs, max) ==
    IF evs = <<>> THEN OkValue(max)
    ELSE LET r == LedgerPush(machine, Head(evs))
         IN MaxFold_lenient(r.machine, Tail(evs),
                            usize_max(r.machine.memory_used, max))

\* The loop of Events::max_memory_used: machine.push(event)? and then
\* max = usize::max(machine.memory_used, max).
RECURSIVE MaxFold(_, _, _)
MaxFold(machine, evs, max) ==
    IF evs = <<>> THEN OkValue(max)
    ELSE LET r == LedgerPush(machine, Head(evs))
         IN IF r.result # Ok THEN Err(r.result)
            ELSE MaxFold(r.machine, Tail(evs),
                         usize_max(r.machine.memory_used, max))

max_memory_used(evs) == MaxFold(Machine(MachineDefault, 0), evs, 0)

\* Vec::reserve(additional) as Events::push and Events::reserve call it: the
\* capacity afterwards.  Nothing happens when the spare capacity suffices;
\* otherwise the capacity at least doubles (amortized growth).
reserve(cap, len, additional) ==
    IF cap - len >= additional THEN cap
    ELSE IF 2 * cap > len + additional THEN 2 * cap ELSE len + additional

\* Faulty variant of ValidateLog: the replay drains the log.
ValidateLog_drains == data' = <<>>

\* &self: validate reads the log and leaves it as it is.
ValidateLog == data' = data

Init ==
    /\ debug_assertions \in BOOLEAN
    /\ data = <<>>
    /\ capacity = 0
    /\ pushed = <<>>
    /\ errors = <<>>
    /\ op = [name |-> "new"]
    /\ ncalls = 0
    /\ regions = MachineDefault
    /\ memory_used = 0
    /\ event = NoEvent
    /\ result = NoResult
    /\ freed = {}
    /\ muted = TRUE
    /\ scopes = <<>>

\* Faulty variant of Record: the event is put in front of the stored ones.
Record_in_front(events) ==
    \E e \in events :
        /\ Len(data) < MaxEvents
        /\ ncalls = 0
        /\ capacity' = IF capacity = Len(data)
                       THEN reserve(capacity, Len(data), 1)
                       ELSE capacity
        /\ data' = <<e>> \o data
        /\ pushed' = Append(pushed, e)
        /\ op' = [name |-> "push", event |-> e, grown |-> capacity = Len(data)]
        /\ UNCHANGED <<muted, scopes, debug_assertions, errors, ncalls, regions, memory_used,
                       event, result, freed>>

\* Events::push of an event of the given set (the window is recorded before
\* it is looked at): at capacity the storage is grown by reserve(1) first
Record(events) ==
    \E e \in events :
        /\ Len(data) < MaxEvents
        /\ ncalls = 0
        /\ capacity' = IF capacity = Len(data)
                       THEN reserve(capacity, Len(data), 1)
                       ELSE capacity
        /\ data' = Append(data, e)
        /\ pushed' = Append(pushed, e)
        /\ op' = [name |-> "push", event |-> e, grown |-> capacity = Len(data)]
        /\ UNCHANGED <<muted, scopes, debug_assertions, errors, ncalls, regions, memory_used,
                       event, result, freed>>

EventsPush == Record(Event)

\* Events::clear at the start of a new window; the caller starts a new list
EventsClear ==
    /\ op.name # "new"
    /\ data' = <<>>
    /\ pushed' = <<>>
    /\ errors' = <<>>
    /\ op' = [name |-> "clear"]
    /\ ncalls' = 0
    /\ regions' = MachineDefault
    /\ memory_used' = 0
    /\ UNCHANGED <<muted, scopes, debug_assertions, capacity, event, result, freed>>

\* Events::validate(&self, errors), called with a new list or with the list
\* of the previous call.  regions is validate's local machine when it returns.
Validate ==
    \E out \in {<<>>, errors} :
        /\ ncalls < MaxCalls
        /\ LET r == Replay(MachineDefault, data, out)
           IN /\ errors' = r.errors \o LeakSweep(r.regions)
              /\ regions' = r.regions
        /\ ValidateLog
        /\ op' = [name |-> "validate", out |-> out]
        /\ ncalls' = ncalls + 1
        /\ UNCHANGED <<muted, scopes, debug_assertions, capacity, pushed, memory_used,
                       event, result, freed>>

Next == EventsPush \/ EventsClear \/ Validate

Spec == Init /\ [][Next]_vars

(***************************************************************************)
(* The machine driven directly, one Machine::push at a time.               *)
(***************************************************************************)
MachinePush ==
    \E e \in Event :
        LET r == push(regions, e) IN
        /\ event = NoEvent
        /\ regions' = r.regions
        /\ event' = e
        /\ result' = r.result
        /\ freed' = IF r.result # Ok THEN freed
                    ELSE IF e.type = "Free" THEN freed \cup {e.request.ptr}
                    ELSE freed \ {e.request.ptr}
        /\ UNCHANGED <<muted, scopes, debug_assertions, data, capacity, pushed, errors, op,
                       ncalls, memory_used>>

\* the caller has looked at the result and goes on; a panic does not return
MachineReturn ==
    /\ event # NoEvent
    /\ result # Panic
    /\ event' = NoEvent
    /\ result' = NoResult
    /\ UNCHANGED <<muted, scopes, debug_assertions, data, capacity, pushed, errors, op, ncalls,
                   regions, memory_used, freed>>

NextMachine == MachinePush \/ MachineReturn

SpecMachine == Init /\ [][NextMachine]_vars

(***************************************************************************)
(* A recorded window of any events, validated or measured once.            *)
(***************************************************************************)
EventsPushAny == Record(WindowEvents)

\* Events::validate(&self, errors) called with a new list
ValidateWindow ==
    /\ ncalls = 0
    /\ LET r == validate(data, <<>>)
       IN /\ errors' = r.errors
          /\ regions' = r.machine.regions
          /\ memory_used' = r.machine.memory_used
    /\ ValidateLog
    /\ op' = [name |-> "validate", out |-> <<>>]
    /\ ncalls' = ncalls + 1
    /\ UNCHANGED <<muted, scopes, debug_assertions, capacity, pushed, event, result, freed>>

\* Events::max_memory_used(&self)
MaxMemoryUsed ==
    /\ ncalls = 0
    /\ op.name # "max_memory_used"
    /\ op' = [name |-> "max_memory_used", ret |-> max_memory_used(data)]
    /\ UNCHANGED <<muted, scopes, debug_assertions, data, capacity, pushed, errors, ncalls,
                   regions, memory_used, event, result, freed>>

NextWindow == EventsPushAny \/ ValidateWindow \/ MaxMemoryUsed

SpecWindow == Init /\ [][NextWindow]_vars

(***************************************************************************)
(* The machine with its counter driven directly, one push of any event at  *)
(* a time.                                                                 *)
(***************************************************************************)
Push(events) ==
    \E e \in events :
        LET r == LedgerPush(Machine(regions, memory_used), e) IN
        /\ event = NoEvent
        /\ memory_used <= MaxUsed
        /\ regions' = r.machine.regions
        /\ memory_used' = r.machine.memory_used
        /\ event' = e
        /\ result' = r.result
        /\ UNCHANGED <<muted, scopes, debug_assertions, data, capacity, pushed, errors, op,
                       ncalls, freed>>

LedgerPushAll == Push(AllEvents)

NextLedger == LedgerPushAll \/ MachineReturn

SpecLedger == Init /\ [][NextLedger]_vars

\* the same with regions of any alignment
LedgerPushAnyAlign == Push(AnyAlignEvents)

NextAnyAlign == LedgerPushAnyAlign \/ MachineReturn

SpecAnyAlign == Init /\ [][NextAnyAlign]_vars

(***************************************************************************)
(* The mute flag (src/src/lib.rs) and the allocator hook                   *)
(* (src/src/allocator.rs) that records into the log of the thread.         *)
(***************************************************************************)
\* Longest log of the thread while the hook records into it.
MaxHooked == 2
\* Most mute scopes open at once.
MaxDepth == 2

\* <*mut u8>::is_null: the null pointer is address zero
is_null(ptr) == ptr = 0

\* std::alloc::Layout
Layout(size, align) == [size |-> size, align |-> align]

\* the layouts and the pointers the hook is called with: at least one byte,
\* byte alignment; the delegate returns null or an address
Layouts == {Layout(s, 1) : s \in 1..MaxSize}
HookPointers == 0..1
\* with the default features the hook has looked at the memory
Looked == {Yes, No}

\* the process was ended (std::alloc::handle_alloc_error, or a panic that
\* may not unwind)
Abort == [tag |-> "Abort"]

\* mute_guard(muted): MUTED.replace(muted); the guard keeps the old value
mute_guard(MUTED, m) == [MUTED |-> m, guard |-> MUTED]

\* Faulty variant of MuteGuard_drop: the flag goes back to its default.
MuteGuard_drop_default(g) == TRUE

\* MuteGuard::drop: MUTED.set(self.0)
MuteGuard_drop(g) == g.guard

\* Allocator::alloc: the event it records for the pointer the delegate
\* returned, NoEvent when it records nothing
Allocator_alloc(MUTED, ptr, layout) ==
    IF MUTED \/ is_null(ptr)
    THEN IF is_null(ptr) THEN AllocFailed ELSE NoEvent
    ELSE Alloc(Region(ptr, layout.size, layout.align))

\* Allocator::dealloc
Allocator_dealloc(MUTED, ptr, layout) ==
    IF MUTED THEN NoEvent
    ELSE Free(Region(ptr, layout.size, layout.align))

\* Allocator::alloc_zeroed; is_zeroed is Some(is_zeroed_ptr(..)) with the
\* feature "zeroed" and None without it
Allocator_alloc_zeroed(MUTED, ptr, layout, is_zeroed) ==
    IF MUTED \/ is_null(ptr)
    THEN IF is_null(ptr) THEN AllocZeroedFailed ELSE NoEvent
    ELSE AllocZeroed(is_zeroed, Region(ptr, layout.size, layout.align))

\* Faulty variant of Allocator_realloc: the two regions exchanged.
Allocator_realloc_swapped(MUTED, ptr, layout, new_size, new_ptr, is_relocated) ==
    IF MUTED \/ is_null(ptr)
    THEN IF is_null(ptr) THEN ReallocNull ELSE NoEvent
    ELSE IF is_null(new_ptr) THEN ReallocFailed
    ELSE Realloc(is_relocated,
                 Region(new_ptr, new_size, layout.align),
                 Region(ptr, layout.size, layout.align))

\* Allocator::realloc of ptr to new_size, the delegate returning new_ptr;
\* is_relocated is Some(hashes agree) with the feature "realloc"
Allocator_realloc(MUTED, ptr, layout, new_size, new_ptr, is_relocated) ==
    IF MUTED \/ is_null(ptr)
    THEN IF is_null(ptr) THEN ReallocNull ELSE NoEvent
    ELSE IF is_null(new_ptr) THEN ReallocFailed
    ELSE Realloc(is_relocated,
                 Region(ptr, layout.size, layout.align),
                 Region(new_ptr, new_size, layout.align))

\* The allocation Vec::reserve(1) makes for Events::push through the
\* installed Allocator, the delegate returning ptr: alloc for the first
\* storage, realloc of the storage afterwards.  The event the hook has for it.
growth(cap, MUTED, ptr) ==
    IF cap = 0
    THEN Allocator_alloc(MUTED, ptr, Layout(1, 1))
    ELSE Allocator_realloc(MUTED, 1, Layout(cap, 1), reserve(cap, cap, 1),
                           ptr, Unknown)

\* The hook has the event h to record and calls borrow_mut on STATE while a
\* borrow of it is live: RefCell panics (BorrowMutError).
reentered(h) == h # NoEvent

\* Faulty variant of Events_push: the storage is grown without the guard.
Events_push_unguarded(self, MUTED, e, ptr) ==
    IF self.capacity = Len(self.data)
    THEN LET h == growth(self.capacity, MUTED, ptr)
             out == [MUTED |-> MUTED, grown |-> TRUE,
                     growth |-> [muted |-> MUTED, event |-> h]]
         IN IF reentered(h)
            THEN [events |-> self, result |-> Panic] @@ out
            ELSE IF is_null(ptr)
            THEN [events |-> self, result |-> Abort] @@ out
            ELSE [events |-> [data |-> Append(self.data, e),
                              capacity |-> reserve(self.capacity,
                                                   Len(self.data), 1)],
                  result |-> Ok] @@ out
    ELSE [events |-> [data |-> Append(self.data, e),
                      capacity |-> self.capacity],
          result |-> Ok, MUTED |-> MUTED, grown |-> FALSE]

\* Events::push(&mut self, event) on the log of the thread (STATE is
\* mutably borrowed by the caller), MUTED being the flag and ptr what the
\* delegate returns if the storage has to grow.  At capacity the guard mutes
\* the thread, reserve(1) allocates through the hook, the guard is dropped
\* (also when the allocation fails and the call does not return), and the
\* event is appended.
Events_push(self, MUTED, e, ptr) ==
    IF self.capacity = Len(self.data)
    THEN LET g == mute_guard(MUTED, TRUE)
             h == growth(self.capacity, g.MUTED, ptr)
             out == [MUTED |-> MuteGuard_drop(g), grown |-> TRUE,
                     growth |-> [muted |-> g.MUTED, event |-> h]]
         IN IF reentered(h)
            THEN [events |-> self, result |-> Panic] @@ out
            ELSE IF is_null(ptr)
            THEN [events |-> self, result |-> Abort] @@ out
            ELSE [events |-> [data |-> Append(self.data, e),
                              capacity |-> reserve(self.capacity,
                                                   Len(self.data), 1)],
                  result |-> Ok] @@ out
    ELSE [events |-> [data |-> Append(self.data, e),
                      capacity |-> self.capacity],
          result |-> Ok, MUTED |-> MUTED, grown |-> FALSE]

\* the thread runs: it neither unwinds from a panic nor was ended
Running == result \notin {Panic, Abort}

\* A panic inside a GlobalAlloc method must not unwind: the build either
\* unwinds all the same or ends the process.
Outcomes(r) == IF r = Panic THEN {Panic, Abort} ELSE {r}

\* crate::with_state(|s| s.borrow_mut().events.push(h)) at the end of a hook
\* method that has the event h to record (nothing when h is NoEvent)
Hooked(name, h) ==
    \E ptr \in IF h # NoEvent /\ capacity = Len(data) THEN {0, 1} ELSE {1} :
        LET r == Events_push([data |-> data, capacity |-> capacity],
                             muted, h, ptr)
        IN /\ Running
           /\ Len(data) < MaxHooked
           /\ Len(pushed) < MaxHooked
           /\ IF h = NoEvent
              THEN /\ UNCHANGED <<data, capacity, pushed, muted>>
                   /\ result' = Ok
                   /\ op' = [name |-> name, muted |-> muted, event |-> h,
                             grown |-> FALSE]
              ELSE /\ data' = r.events.data
                   /\ capacity' = r.events.capacity
                   /\ pushed' = IF r.result = Ok THEN Append(pushed, h)
                                ELSE pushed
                   /\ muted' = r.MUTED
                   /\ result' \in Outcomes(r.result)
                   /\ op' = [name |-> name, muted |-> muted, event |-> h,
                             grown |-> r.grown]
                            @@ (IF r.grown THEN [growth |-> r.growth]
                                ELSE <<>>)
           /\ UNCHANGED <<debug_assertions, errors, ncalls, regions,
                          memory_used, event, freed, scopes>>

\* GlobalAlloc::alloc(layout), the delegate returning ptr
AllocCall(ptr, layout) == Hooked("alloc", Allocator_alloc(muted, ptr, layout))

\* GlobalAlloc::dealloc(ptr, layout)
DeallocCall(ptr, layout) ==
    Hooked("dealloc", Allocator_dealloc(muted, ptr, layout))

\* GlobalAlloc::alloc_zeroed(layout), the delegate returning ptr
AllocZeroedCall(ptr, layout, is_zeroed) ==
    Hooked("alloc_zeroed", Allocator_alloc_zeroed(muted, ptr, layout, is_zeroed))

\* GlobalAlloc::realloc(ptr, layout, new_size), the delegate returning new_ptr
ReallocCall(ptr, layout, new_size, new_ptr, is_relocated) ==
    Hooked("realloc",
           Allocator_realloc(muted, ptr, layout, new_size, new_ptr,
                             is_relocated))

HookAlloc == \E ptr \in HookPointers, layout \in Layouts : AllocCall(ptr, layout)

HookDealloc ==
    \E ptr \in HookPointers \ {0}, layout \in Layouts : DeallocCall(ptr, layout)

HookAllocZeroed ==
    \E ptr \in HookPointers, layout \in Layouts, is_zeroed \in Looked :
        AllocZeroedCall(ptr, layout, is_zeroed)

HookRealloc ==
    \E ptr \in HookPointers, layout \in Layouts, new_size \in 1..MaxSize,
       new_ptr \in Pointers, is_relocated \in Looked :
        ReallocCall(ptr, layout, new_size, new_ptr, is_relocated)

\* A scope is opened: the flag is replaced and the guard lives until the
\* scope ends.
Scope(name, m) ==
    /\ Running
    /\ Len(scopes) < MaxDepth
    /\ LET g == mute_guard(muted, m)
       IN /\ muted' = g.MUTED
          /\ scopes' = Append(scopes, [name |-> name, guard |-> g.guard])
    /\ op' = [name |-> name]
    /\ UNCHANGED <<debug_assertions, data, capacity, pushed, errors, ncalls,
                   regions, memory_used, event, result, freed>>

\* let _g = mute_guard(muted)
MuteGuard == \E m \in BOOLEAN : Scope("mute_guard", m)

\* with_muted(f) up to the call of f
WithMuted == Scope("with_muted", TRUE)

\* with_unmuted(f) up to the call of f
WithUnmuted == Scope("with_unmuted", FALSE)

\* the innermost scope
Innermost == scopes[Len(scopes)]

\* The innermost scope ends normally: its guard is dropped.
ScopeExit ==
    /\ Running
    /\ scopes # <<>>
    /\ Innermost.name # "with"
    /\ muted' = MuteGuard_drop(Innermost)
    /\ scopes' = SubSeq(scopes, 1, Len(scopes) - 1)
    /\ op' = [name |-> "exit"]
    /\ UNCHANGED <<debug_assertions, data, capacity, pushed, errors, ncalls,
                   regions, memory_used, event, result, freed>>

\* A panic leaves the innermost scope: unwinding drops its guard.
Unwind ==
    /\ result # Abort
    /\ scopes # <<>>
    /\ muted' = MuteGuard_drop(Innermost)
    /\ scopes' = SubSeq(scopes, 1, Len(scopes) - 1)
    /\ result' = Panic
    /\ op' = [name |-> "unwind"]
    /\ UNCHANGED <<debug_assertions, data, capacity, pushed, errors, ncalls,
                   regions, memory_used, event, freed>>

\* a call of with is running f
InWith == \E i \in 1..Len(scopes) : scopes[i].name = "with"

\* with(f) up to the call of f: the log is cleared and with_unmuted opens
\* its scope.  pushed holds the events recorded since the outermost call of
\* with began, and mark how many of them there were when this call began.
With ==
    /\ Running
    /\ Len(scopes) < MaxDepth
    /\ data' = <<>>
    /\ pushed' = IF InWith THEN pushed ELSE <<>>
    /\ LET g == mute_guard(muted, FALSE)
       IN /\ muted' = g.MUTED
          /\ scopes' = Append(scopes, [name |-> "with", guard |-> g.guard,
                                       mark |-> Len(pushed')])
    /\ op' = [name |-> "with"]
    /\ UNCHANGED <<debug_assertions, capacity, errors, ncalls, regions,
                   memory_used, event, result, freed>>

\* with(f) from the return of f: with_unmuted drops its guard and the log
\* is cloned into the snapshot while STATE is borrowed; a log that holds
\* events is cloned into new storage, the delegate returning ptr for it.
WithReturn ==
    \E ptr \in IF data # <<>> THEN {0, 1} ELSE {1} :
        LET m == MuteGuard_drop(Innermost)
            h == IF data = <<>> THEN NoEvent
                 ELSE Allocator_alloc(m, ptr, Layout(Len(data), 1))
            r == IF reentered(h) THEN Panic
                 ELSE IF data # <<>> /\ is_null(ptr) THEN Abort
                 ELSE Ok
        IN /\ Running
           /\ scopes # <<>>
           /\ Innermost.name = "with"
           /\ muted' = m
           /\ scopes' = SubSeq(scopes, 1, Len(scopes) - 1)
           /\ result' \in Outcomes(r)
           /\ op' = IF r = Ok THEN [name |-> "with_return", events |-> data]
                    ELSE [name |-> "with_return"]
           /\ UNCHANGED <<debug_assertions, data, capacity, pushed, errors,
                          ncalls, regions, memory_used, event, freed>>

NextHook ==
    \/ HookAlloc \/ HookDealloc \/ HookAllocZeroed \/ HookRealloc
    \/ MuteGuard \/ WithMuted \/ WithUnmuted \/ ScopeExit \/ Unwind
    \/ With \/ WithReturn

\* the hook is the same in every build: the debug build is taken
InitHook == Init /\ debug_assertions

SpecHook == InitHook /\ [][NextHook]_vars

(***************************************************************************)
(* Properties.                                                             *)
(***************************************************************************)
\* validate has just returned
Validated == op.name = "validate"

\* the step is a call of validate
ValidateStep == op'.name = "validate" /\ ncalls' = ncalls + 1

\* what the last validate call appended to the list it was given
Appended == SubSeq(errors, Len(op.out) + 1, Len(errors))

\* how many entries of a list equal v
Count(list, v) == Cardinality({i \in 1..Len(list) : list[i] = v})

\* n is a multiple of d, said without the code's % test
MultipleOf(n, d) == \E k \in 0..n : n = k * d

\* the machine of validate before it pushes the i-th event of the log
LiveBefore(i) == Replay(MachineDefault, SubSeq(data, 1, i - 1), <<>>).regions

\* ptr lies in the half-open extent [r.ptr, r.ptr + r.size) of r
Within(ptr, r) == r.ptr <= ptr /\ ptr < r.ptr + r.size

\* the log is [Alloc(R), Free(R)] for a region R the allocator can grant
\* (R.ptr is a multiple of R.align)
AllocThenFree ==
    /\ Len(data) = 2
    /\ data[1].type = "Alloc"
    /\ MultipleOf(data[1].request.ptr, data[1].request.align)
    /\ data[2] = Free(data[1].request)

\* C1: validate over the log [Alloc(R), Free(R)] appends nothing to the
\* output list: no violation for either event and no Leaked entry.
C1_AllocThenFreeAppendsNothing ==
    (Validated /\ AllocThenFree) => Appended = <<>>

\* C2: once a push of Free(R) has succeeded, every later push of a Free at
\* R's address (Free(R) itself included) with no successful Alloc at that
\* address in between returns MissingFree, whatever was pushed at other
\* addresses in between.
C2_DoubleFreeIsMissingFree ==
    [][(event'.type = "Free" /\ event'.request.ptr \in freed)
        => result' = MissingFree(event'.request)]_vars

\* C2 witness: a second Free of a freed address was refused with MissingFree
\* while another region is live.
C2_Witness ==
    /\ event.type = "Free"
    /\ event.request.ptr \in freed
    /\ result = MissingFree(event.request)
    /\ DOMAIN regions # {}

\* C3: a Free(R) pushed when no live region is keyed at R's address (the
\* address was never allocated, or lies inside a live region that starts
\* lower) fails with MissingFree, and validate reports exactly one
\* MissingFree for each such event of the log and for no other event.
C3_UnkeyedFreeIsMissingFree ==
    Validated =>
        \A r \in Regions :
            Count(Appended, MissingFree(r)) =
                Cardinality({i \in 1..Len(data) :
                    /\ data[i] = Free(r)
                    /\ r.ptr \notin DOMAIN LiveBefore(i)})

\* C3 witness: validate reported MissingFree for a Free whose address lies
\* strictly inside a region that was live when the Free was replayed.
C3_Witness ==
    /\ Validated
    /\ Len(data) = 2
    /\ data[1].type = "Alloc"
    /\ data[2].type = "Free"
    /\ data[2].request.ptr # data[1].request.ptr
    /\ Within(data[2].request.ptr, data[1].request)
    /\ data[1].request.ptr \in DOMAIN regions
    /\ Count(Appended, MissingFree(data[2].request)) = 1

\* the log is two Allocs of regions the allocator can grant
TwoAllocs ==
    /\ Len(data) = 2
    /\ data[1].type = "Alloc"
    /\ data[2].type = "Alloc"
    /\ MultipleOf(data[1].request.ptr, data[1].request.align)
    /\ MultipleOf(data[2].request.ptr, data[2].request.align)

\* C4: for a log of two Allocs where the first succeeds and the second's
\* address lies within [first.ptr, first.ptr + first.size), validate reports
\* ConflictingAlloc for the second Alloc, with the second region as the
\* request and the first as the existing one.
C4_OverlappingAllocConflicts ==
    (Validated /\ TwoAllocs /\ Within(data[2].request.ptr, data[1].request))
        => Count(Appended, ConflictingAlloc(data[2].request, data[1].request)) = 1

\* C5: for a log of two Allocs of aligned regions of which neither address
\* lies in the other's half-open extent [ptr, ptr + size), validate reports
\* no ConflictingAlloc (regions of non-zero size at different addresses).
C5_DisjointAllocsNeverConflict ==
    (/\ Validated
     /\ TwoAllocs
     /\ data[1].request.size > 0
     /\ data[2].request.size > 0
     /\ ~Within(data[2].request.ptr, data[1].request)
     /\ ~Within(data[1].request.ptr, data[2].request))
        => \A i \in 1..Len(Appended) : Appended[i].tag # "ConflictingAlloc"

C7_WrongSizeFreeIsIncomplete ==
    [][(event'.type = "Free" /\ event'.request.ptr \in DOMAIN regions)
        => LET requested == event'.request
               existing == regions[requested.ptr]
           IN /\ existing.size # requested.size
                    => /\ result' = IncompleteFree(requested, existing)
                       /\ regions' = regions
              /\ existing = requested
                    => /\ result' = Ok
                       /\ requested.ptr \notin DOMAIN regions']_vars

\* C7 witness: a Free with the wrong size was refused with IncompleteFree and
\* the region it named is still live.
C7_Witness ==
    /\ event.type = "Free"
    /\ result.tag = "IncompleteFree"
    /\ event.request.ptr \in DOMAIN regions
    /\ regions[event.request.ptr].size # event.request.size

\* C8: after validate has replayed the log, every region live after the last
\* event is named by exactly one Leaked entry and no Leaked entry names a
\* region that is not live.
C8_LeakSweepIsExact ==
    Validated =>
        \A r \in Regions :
            Count(Appended, Leaked(r)) =
                IF r.ptr \in DOMAIN regions /\ regions[r.ptr] = r THEN 1 ELSE 0

\* C8 witness: a log in which one region was allocated and freed and another
\* is still live; validate appended the one Leaked entry.
C8_Witness ==
    /\ Validated
    /\ Len(data) = 3
    /\ \E i \in 1..3 : data[i].type = "Free"
    /\ Cardinality(DOMAIN regions) = 1
    /\ \E r \in Regions : Appended = <<Leaked(r)>>

\* C9: for the log [Free(R), Alloc(R)] with R aligned, validate reports
\* MissingFree for the Free and then Leaked for R.
C9_FreeBeforeAllocIsMissingThenLeaked ==
    (/\ Validated
     /\ Len(data) = 2
     /\ data[1].type = "Free"
     /\ data[2] = Alloc(data[1].request)
     /\ MultipleOf(data[1].request.ptr, data[1].request.align))
        => Appended = <<MissingFree(data[1].request), Leaked(data[1].request)>>

Measured == op.name = "max_memory_used"

\* the violations of the pushes of a replay of the log, without the leaks
PushViolations ==
    ReplayLedger(Machine(MachineDefault, 0), data, <<>>).errors

\* what an event that succeeds adds to the total size of the live regions
SizeChange(e) ==
    CASE e.type \in {"Alloc", "AllocZeroed"} -> e.request.size
      [] e.type = "Free" -> 0 - e.request.size
      [] e.type = "Realloc" -> e.alloc.size - e.free.size
      [] OTHER -> 0

\* the total size of the regions live after the first i events of a log in
\* which every event succeeds
RECURSIVE LiveSizeAfter(_)
LiveSizeAfter(i) ==
    IF i = 0 THEN 0 ELSE LiveSizeAfter(i - 1) + SizeChange(data[i])

\* the largest total size of the live regions over the prefixes of the log
PeakLiveSize ==
    CHOOSE m \in {LiveSizeAfter(i) : i \in 0..Len(data)} :
        \A i \in 0..Len(data) : LiveSizeAfter(i) <= m

\* the log has the shape of [Alloc(0x10,0x10,1), Alloc(0x20,0x10,1),
\* Free(0x10,0x10,1)]: two regions of the same size, the second starting
\* where the first ends, and the first freed
TwoAdjacentOneFreed ==
    /\ Len(data) = 3
    /\ data[1].type = "Alloc" /\ data[2].type = "Alloc"
    /\ data[1].request.size > 0
    /\ data[1].request.align = 1 /\ data[2].request.align = 1
    /\ data[2].request.size = data[1].request.size
    /\ data[2].request.ptr = data[1].request.ptr + data[1].request.size
    /\ data[3] = Free(data[1].request)

\* C11: for a log whose replay makes no push fail, max_memory_used returns
\* Ok(m) with m the largest, over the prefixes of the log, of the total size
\* of the regions live after the prefix; for a log of the shape
\* [Alloc(0x10,0x10,1), Alloc(0x20,0x10,1), Free(0x10,0x10,1)] it returns
\* Ok of the two sizes together.
C11_MaxMemoryUsedIsPeakLiveSize ==
    Measured =>
        /\ PushViolations = <<>> => op.ret = OkValue(PeakLiveSize)
        /\ TwoAdjacentOneFreed => op.ret = OkValue(2 * data[1].request.size)

\* what validate appends for the log when it is given an empty list
ValidateAppends == validate(data, <<>>).errors

\* C12: max_memory_used returns Err(v) exactly when validate of the same log
\* reports a violation of a push (an entry that is not Leaked), v is then the
\* first entry validate appends, and a log whose only entries are Leaked
\* gives Ok.
C12_MaxMemoryUsedFailsFast ==
    Measured =>
        LET appended == ValidateAppends IN
        /\ op.ret.tag \in {"Ok", "Err"}
        /\ op.ret.tag = "Err"
              <=> \E j \in 1..Len(appended) : appended[j].tag # "Leaked"
        /\ op.ret.tag = "Err" => op.ret.error = appended[1]

\* C12 witness: a log of three events of which the first succeeds and the
\* other two fail with different violations; max_memory_used returned the
\* violation of the second event, and validate also reports a leak.
C12_Witness ==
    /\ Measured
    /\ Len(data) = 3
    /\ LedgerPush(Machine(MachineDefault, 0), data[1]).result = Ok
    /\ Len(PushViolations) = 2
    /\ PushViolations[1].tag # PushViolations[2].tag
    /\ Len(ValidateAppends) = 3
    /\ op.ret = Err(PushViolations[1])

\* C13: a push of an event of any address, size and alignment, in every
\* reachable state of the machine, returns Ok or a violation; it never
\* panics (and so neither do validate and max_memory_used, which call it).
C13_PushNeverPanics == result # Panic

\* the machine before and after the step
Before == Machine(regions, memory_used)
After == Machine(regions', memory_used')

\* C14: a push of AllocFailed, AllocZeroedFailed or ReallocFailed returns Ok
\* and leaves the live regions and memory_used as they were, in every state
\* of the machine; the loop of validate appends nothing for such an event.
C14_FailedEventsAreInert ==
    [][event' \in FailedEvents
        => /\ result' = Ok
           /\ After = Before
           /\ ReplayLedger(Before, <<event'>>, <<>>) =
                  [machine |-> Before, errors |-> <<>>]]_vars

\* C14 witness: a failed event was pushed into a machine with a live region
\* and returned Ok.
C14_Witness ==
    /\ is_failed(event)
    /\ result = Ok
    /\ DOMAIN regions # {}
    /\ memory_used > 0

\* C15: a push of AllocZeroed with is_zeroed = Some(false) returns
\* NonZeroedAlloc for its region R and does not record R: regions and
\* memory_used stay as they were, so when no region was live at R's address
\* a Free(R) pushed next returns MissingFree and the leak sweep has no
\* Leaked entry for R.
C15_NonZeroedAllocIsNotRecorded ==
    [][(event'.type = "AllocZeroed" /\ event'.is_zeroed = No)
        => LET R == event'.request IN
           /\ result' = NonZeroedAlloc(R)
           /\ After = Before
           /\ R.ptr \notin DOMAIN regions
                => /\ LedgerPush(After, Free(R)).result = MissingFree(R)
                   /\ Count(LeakSweep(regions'), Leaked(R)) = 0]_vars

\* C15 witness: a non-zeroed AllocZeroed of a region that would otherwise
\* have been granted (aligned, at a free address, another region live) was
\* refused.
C15_Witness ==
    /\ event.type = "AllocZeroed"
    /\ event.is_zeroed = No
    /\ result = NonZeroedAlloc(event.request)
    /\ DOMAIN regions # {}
    /\ event.request.ptr \notin DOMAIN regions
    /\ debug_assertions
    /\ alloc(Machine(regions, memory_used), event.request).result = Ok

\* C16: a push of AllocZeroed with is_zeroed = Some(true) or None has the
\* result and the effect on the machine of a push of Alloc with the same
\* request, from every state; it never returns NonZeroedAlloc.
C16_ZeroedOrUnknownIsAlloc ==
    [][(event'.type = "AllocZeroed" /\ event'.is_zeroed \in {Yes, Unknown})
        => LET asAlloc == LedgerPush(Before, Alloc(event'.request)) IN
           /\ result' = asAlloc.result
           /\ After = asAlloc.machine
           /\ result'.tag # "NonZeroedAlloc"]_vars

\* C16 witness: an AllocZeroed whose check was not performed was granted
\* next to a live region and is live itself.
C16_Witness ==
    /\ event.type = "AllocZeroed"
    /\ event.is_zeroed = Unknown
    /\ result = Ok
    /\ Cardinality(DOMAIN regions) = 2
    /\ event.request.ptr \in DOMAIN regions
    /\ regions[event.request.ptr] = event.request

\* C17: a push of Realloc with is_relocated = Some(false) returns
\* NonCopiedRealloc and applies neither the free nor the alloc: regions and
\* memory_used are as before the push.
C17_NonCopiedReallocChangesNothing ==
    [][(event'.type = "Realloc" /\ event'.is_relocated = No)
        => /\ result' = NonCopiedRealloc(event')
           /\ After = Before]_vars

\* C17 witness: a non-copied Realloc was refused although its free region is
\* live and both its free and its alloc would have succeeded.
C17_Witness ==
    /\ event.type = "Realloc"
    /\ event.is_relocated = No
    /\ result = NonCopiedRealloc(event)
    /\ debug_assertions
    /\ event.free.ptr \in DOMAIN regions
    /\ event.alloc.size # event.free.size
    /\ LedgerPush(Machine(regions, memory_used),
                  Realloc(Yes, event.free, event.alloc)).result = Ok

\* C18: a push of Realloc with is_relocated = Some(true) or None has the
\* result and the final state of a push of Free(free region) followed, only
\* if that succeeded, by a push of Alloc(alloc region): the Free's violation
\* if the Free fails, otherwise the Alloc's violation if the Alloc fails,
\* otherwise Ok.
C18_ReallocIsFreeThenAlloc ==
    [][(event'.type = "Realloc" /\ event'.is_relocated \in {Yes, Unknown})
        => LET freed_first == LedgerPush(Before, Free(event'.free))
               then_alloc == LedgerPush(freed_first.machine, Alloc(event'.alloc))
           IN IF freed_first.result # Ok
              THEN result' = freed_first.result /\ After = freed_first.machine
              ELSE result' = then_alloc.result /\ After = then_alloc.machine]_vars

\* C18 witness: a Realloc whose free succeeded and whose alloc was refused
\* because it conflicts with another live region.
C18_Witness ==
    /\ event.type = "Realloc"
    /\ event.is_relocated = Unknown
    /\ result.tag = "ConflictingAlloc"
    /\ event.free.ptr \notin DOMAIN regions
    /\ result.existing.ptr \in DOMAIN regions

\* C19: a push of ReallocNull returns the ReallocNull violation in every
\* state of the machine and leaves regions and memory_used as they were.
C19_ReallocNullAlwaysFails ==
    [][event' = ReallocNull
        => result' = ReallocNullViolation /\ After = Before]_vars

\* C19 witness: a ReallocNull was refused by a machine with a live region.
C19_Witness ==
    /\ event = ReallocNull
    /\ result = ReallocNullViolation
    /\ DOMAIN regions # {}
    /\ memory_used > 0

\* the step is a call of Events::push
PushStep == op'.name = "push" /\ Len(pushed') = Len(pushed) + 1

\* C20: the log holds the events pushed into it since it was empty, in the
\* order they were pushed (after n pushes its length is n and its i-th event
\* is the i-th pushed), and a push, also one that grows the storage, puts
\* its event at the end and leaves the earlier events as they were.
C20_PushAppendsInOrder ==
    /\ [](data = pushed)
    /\ [][PushStep
            => /\ Len(data') = Len(data) + 1
               /\ data'[Len(data')] = op'.event
               /\ SubSeq(data', 1, Len(data)) = data
               /\ capacity' >= Len(data')]_vars

\* C20 witness: the third push grew the storage of a log that held two
\* different events.
C20_Witness ==
    /\ op.name = "push"
    /\ op.grown
    /\ Len(data) = 3
    /\ capacity > 3
    /\ data[1] # data[2]
    /\ data[3] = op.event
    /\ data[3] # data[1]

\* the methods of the allocator hook
HookNames == {"alloc", "dealloc", "alloc_zeroed", "realloc"}

\* the step is a call of a method of the allocator hook
HookStep == op'.name \in HookNames

\* C21: whenever Events::push has to grow the storage of the log, the
\* allocation for it is made while the thread is muted, whatever the flag
\* was when the hook was called, and nothing but the pushed event is put
\* into the log: the log holds what it held, followed by that event if the
\* call returned.
C21_GrowthIsMuted ==
    [][HookStep /\ op'.grown
         => /\ op'.growth.muted
            /\ \/ data' = Append(data, op'.event) /\ result' = Ok
               \/ data' = data /\ result' \in {Panic, Abort}]_vars

\* C21 witness: an alloc call made while unmuted recorded its Alloc as the
\* second event of the log, whose storage was grown for it.
C21_Witness ==
    /\ op.name = "alloc"
    /\ ~op.muted
    /\ op.grown
    /\ op.growth.muted
    /\ op.growth.event = NoEvent
    /\ result = Ok
    /\ Len(data) = 2
    /\ capacity = 2
    /\ data[2] = op.event
    /\ op.event.type = "Alloc"

\* the step opens a scope
ScopeOpened == Len(scopes') = Len(scopes) + 1

\* the step ends the innermost scope, normally or by a panic
ScopeEnded == Len(scopes') = Len(scopes) - 1

\* C22: the muted flag starts true; the guard of a scope opened by
\* mute_guard, with_muted or with_unmuted holds the value the flag had when
\* the scope was opened, the scopes that stay open keep theirs, and when the
\* innermost scope ends, normally or by a panic that unwinds, the flag is
\* that value again, so that the flag is true whenever no scope is open; an
\* allocator call, with the scope Events::push opens to grow the log,
\* leaves the flag as it was, also when it panics.
C22_ScopesRestoreTheFlag ==
    /\ muted = TRUE
    /\ [](scopes = <<>> => muted = TRUE)
    /\ [][/\ ScopeOpened
             => /\ scopes'[Len(scopes')].guard = muted
                /\ SubSeq(scopes', 1, Len(scopes)) = scopes
          /\ ScopeEnded
             => /\ muted' = Innermost.guard
                /\ scopes' = SubSeq(scopes, 1, Len(scopes) - 1)
          /\ HookStep => muted' = muted /\ scopes' = scopes]_vars

\* C22 witness: with the thread unmuted by an outer scope, a muting scope
\* inside it was left by a panic and the thread is unmuted again.
C22_Witness ==
    /\ op.name = "unwind"
    /\ result = Panic
    /\ Len(scopes) = 1
    /\ scopes[1].guard = TRUE
    /\ muted = FALSE

(***************************************************************************)
(* Events::reserve on a log that is pushed into and cleared.               *)
(***************************************************************************)
\* Largest argument of Events::reserve.
MaxReserve == 3

\* usize::saturating_sub
saturating_sub(a, b) == IF a > b THEN a - b ELSE 0

\* Events::reserve(&mut self, cap): the capacity afterwards
Events_reserve(cap_now, len, cap) ==
    reserve(cap_now, len, saturating_sub(cap, cap_now))

\* Events::reserve(cap)
EventsReserve ==
    \E cap \in 0..MaxReserve :
        /\ capacity' = Events_reserve(capacity, Len(data), cap)
        /\ op' = [name |-> "reserve", cap |-> cap, len |-> Len(data),
                  capacity |-> capacity]
        /\ UNCHANGED <<debug_assertions, data, pushed, errors, ncalls,
                       regions, memory_used, event, result, freed, muted,
                       scopes>>

\* Events::push of an event that carries no region
EventsPushFailed == Record(FailedEvents)

NextReserve == EventsPushFailed \/ EventsClear \/ EventsReserve

SpecReserve == Init /\ [][NextReserve]_vars

\* C23: after reserve(n) the log can take n more pushes without growing
\* its storage: capacity - len >= n, whatever the length and the capacity
\* were.
C23_ReserveMakesRoom ==
    op.name = "reserve" => capacity - Len(data) >= op.cap

(***************************************************************************)
(* The counting helpers of Events on a log of events of every variant.     *)
(***************************************************************************)
\* Iterator::sum of a list of numbers
RECURSIVE sum(_)
sum(list) == IF list = <<>> THEN 0 ELSE Head(list) + sum(Tail(list))

\* Faulty variant of allocs: a Realloc is counted as an allocation too.
allocs_with_reallocs(evs) ==
    sum([i \in 1..Len(evs) |->
            IF evs[i].type \in {"Alloc", "AllocZeroed", "Realloc"}
            THEN 1 ELSE 0])

\* Events::allocs
allocs(evs) ==
    sum([i \in 1..Len(evs) |->
            IF evs[i].type \in {"Alloc", "AllocZeroed"} THEN 1 ELSE 0])

\* Events::reallocs
reallocs(evs) ==
    sum([i \in 1..Len(evs) |-> IF evs[i].type = "Realloc" THEN 1 ELSE 0])

\* Events::frees
frees(evs) ==
    sum([i \in 1..Len(evs) |-> IF evs[i].type = "Free" THEN 1 ELSE 0])

\* one event of every variant, and a second Alloc and Free
CountedEvents ==
    {Alloc(Region(0, 1, 1)), Alloc(Region(1, 1, 1)),
     Free(Region(0, 1, 1)), Free(Region(1, 1, 1)),
     AllocZeroed(Yes, Region(0, 1, 1)),
     Realloc(Yes, Region(0, 1, 1), Region(1, 2, 1)),
     AllocFailed, AllocZeroedFailed, ReallocFailed, ReallocNull}

EventsPushCounted == Record(CountedEvents)

\* a call of a helper that takes &self and returns ret
Counted(name, ret) ==
    /\ op' = [name |-> name, ret |-> ret]
    /\ UNCHANGED <<debug_assertions, data, capacity, pushed, errors, ncalls,
                   regions, memory_used, event, result, freed, muted, scopes>>

EventsAllocs == Counted("allocs", allocs(data))

EventsReallocs == Counted("reallocs", reallocs(data))

EventsFrees == Counted("frees", frees(data))

NextCount == EventsPushCounted \/ EventsAllocs \/ EventsReallocs \/ EventsFrees

SpecCount == Init /\ [][NextCount]_vars

\* the number of events of the log whose variant is one of the given ones
NumberOf(types) == Cardinality({i \in 1..Len(data) : data[i].type \in types})

\* the step is a call of a counting helper
CountStep == op'.name \in {"allocs", "reallocs", "frees"}

\* C24: allocs() returns the number of Alloc and AllocZeroed events of the
\* log, frees() the number of Free events and reallocs() the number of
\* Realloc events, so that a Realloc counts in neither allocs nor frees and
\* the failed events and ReallocNull count in none of the three; a call of
\* a helper leaves the log and its capacity as they were.
C24_CountsAreExact ==
    /\ [](/\ op.name = "allocs" => op.ret = NumberOf({"Alloc", "AllocZeroed"})
          /\ op.name = "frees" => op.ret = NumberOf({"Free"})
          /\ op.name = "reallocs" => op.ret = NumberOf({"Realloc"})
          /\ allocs(data) + frees(data) + reallocs(data)
               = Len(data) - NumberOf({"AllocFailed", "AllocZeroedFailed",
                                       "ReallocFailed", "ReallocNull"}))
    /\ [][CountStep => data' = data /\ capacity' = capacity]_vars

\* C24 witness: allocs() has returned 2 on a log that holds an Alloc, an
\* AllocZeroed and a Realloc.
C24_Witness ==
    /\ op.name = "allocs"
    /\ op.ret = 2
    /\ Len(data) = 3
    /\ {data[i].type : i \in 1..3} = {"Alloc", "AllocZeroed", "Realloc"}

\* C25: a call of alloc, dealloc, alloc_zeroed or realloc made while the
\* muted flag is true leaves the log of the thread as it was, whatever the
\* delegate returned.
C25_MutedCallsRecordNothing ==
    [][HookStep /\ muted => data' = data]_vars

\* the step is a call of the hook made while unmuted, and the call returned
UnmutedCallReturned == HookStep /\ ~muted /\ result' = Ok

\* the regions of a realloc call: the one given up and the one obtained
FreedBy(ptr, layout) == Region(ptr, layout.size, layout.align)
ObtainedBy(new_ptr, layout, new_size) == Region(new_ptr, new_size, layout.align)

\* what the step appended to the log is exactly the event e
AppendedOnly(e) == data' = Append(data, e)

\* the calls of alloc, dealloc and alloc_zeroed made while unmuted append
\* their one event
PlainCallsAppendTheirEvent ==
    /\ \A ptr \in HookPointers, layout \in Layouts :
         op'.name = "alloc" /\ AllocCall(ptr, layout)
           => AppendedOnly(IF is_null(ptr) THEN AllocFailed
                           ELSE Alloc(Region(ptr, layout.size, layout.align)))
    /\ \A ptr \in HookPointers \ {0}, layout \in Layouts :
         op'.name = "dealloc" /\ DeallocCall(ptr, layout)
           => AppendedOnly(Free(Region(ptr, layout.size, layout.align)))
    /\ \A ptr \in HookPointers, layout \in Layouts, is_zeroed \in Looked :
         op'.name = "alloc_zeroed" /\ AllocZeroedCall(ptr, layout, is_zeroed)
           => AppendedOnly(IF is_null(ptr) THEN AllocZeroedFailed
                           ELSE AllocZeroed(is_zeroed,
                                            Region(ptr, layout.size,
                                                   layout.align)))

RecordedWhileRunning == SubSeq(pushed, Innermost.mark + 1, Len(pushed))

\* C27: with(f) clears the log and unmutes the thread before f runs, and
\* when it returns its snapshot holds exactly the events recorded while f
\* ran, in their order, and the muted flag is what it was before the call.
C27_SnapshotIsWhatRanInside ==
    [][/\ op'.name = "with" => data' = <<>> /\ muted' = FALSE
       /\ op'.name = "with_return" /\ result' = Ok
          => /\ op'.events = RecordedWhileRunning
             /\ muted' = Innermost.guard]_vars

\* R starts inside the half-open extent of the live region l
StartsInside(R, l) == Within(R.ptr, l)

\* R starts below the live region l and its half-open extent reaches l's
\* address: R contains l or extends into it
ReachesInto(R, l) == R.ptr < l.ptr /\ l.ptr < R.ptr + R.size

\* C28: whatever regions are live, a push of Alloc(R) with R's address a
\* multiple of its alignment returns ConflictingAlloc when R overlaps a
\* live region: R starts inside it, R contains it, or R starts below it and
\* extends into it; live regions at lower addresses that do not overlap R
\* make no difference.
C28_EveryOverlapConflicts ==
    [][(/\ event'.type = "Alloc"
        /\ MultipleOf(event'.request.ptr, event'.request.align)
        /\ \E k \in DOMAIN regions :
              \/ StartsInside(event'.request, regions[k])
              \/ ReachesInto(event'.request, regions[k]))
        => result'.tag = "ConflictingAlloc"]_vars

\* no address lies in the half-open extents of two live regions
PairwiseDisjoint(map) ==
    \A j, k \in DOMAIN map :
        j # k => ~\E a \in Pointers : Within(a, map[j]) /\ Within(a, map[k])

\* C29: in every state reached by pushing events into a new machine the
\* live regions are pairwise disjoint: no address belongs to the half-open
\* extent [address, address + size) of two of them.
C29_LiveRegionsAreDisjoint == PairwiseDisjoint(regions)

\* C30: when push(Alloc(R)) returns Ok, in a build with or without debug
\* assertions, the map holds R under R's address and every key is the
\* address of its region, trailing_regions contains R, memory_used has
\* grown by R's size and the other live regions are as they were.
C30_OkAllocIsRecorded ==
    [][(event'.type = "Alloc" /\ result' = Ok)
        => /\ event'.request.ptr \in DOMAIN regions'
           /\ regions'[event'.request.ptr] = event'.request
           /\ \A k \in DOMAIN regions' : regions'[k].ptr = k
           /\ \E i \in 1..Len(trailing_regions(regions')) :
                 trailing_regions(regions')[i] = event'.request
           /\ memory_used' = memory_used + event'.request.size
           /\ \A k \in DOMAIN regions :
                 k \in DOMAIN regions' /\ regions'[k] = regions[k]]_vars

\* the live region keyed at R's address is R itself: same address, size and
\* alignment
LiveAs(R) == R.ptr \in DOMAIN regions /\ regions[R.ptr] = R

\* C31: a push of Free(R) while a live region with R's address, size and
\* alignment exists returns Ok, removes exactly that entry, lowers
\* memory_used by R's size and leaves every other live region as it was.
C31_ExactFreeRemovesTheRegion ==
    [][(event'.type = "Free" /\ LiveAs(event'.request))
        => /\ result' = Ok
           /\ DOMAIN regions' = DOMAIN regions \ {event'.request.ptr}
           /\ \A k \in DOMAIN regions' : regions'[k] = regions[k]
           /\ memory_used' = memory_used - event'.request.size]_vars

\* C31 witness: an exact Free of a region that held bytes returned Ok while
\* another region stays live.
C31_Witness ==
    /\ event.type = "Free"
    /\ result = Ok
    /\ event.request.size > 0
    /\ event.request.ptr \notin DOMAIN regions
    /\ DOMAIN regions # {}
    /\ memory_used > 0

\* the live region keyed at R's address has R's size and another alignment
LiveWithOtherAlign(R) ==
    /\ R.ptr \in DOMAIN regions
    /\ regions[R.ptr].size = R.size
    /\ regions[R.ptr].align # R.align

\* C32: a push of Free(R) while a live region has R's address and size but
\* another alignment fails with MisalignedFree carrying R and the live
\* region, and the live region stays live.
C32_WrongAlignFreeIsMisaligned ==
    [][(event'.type = "Free" /\ LiveWithOtherAlign(event'.request))
        => /\ result' = MisalignedFree(event'.request, regions[event'.request.ptr])
           /\ regions' = regions]_vars

\* C32 witness: a Free with the wrong alignment was refused and the region
\* it named is still live next to another one.
C32_Witness ==
    /\ event.type = "Free"
    /\ result.tag = "MisalignedFree"
    /\ result.request = event.request
    /\ event.request.ptr \in DOMAIN regions
    /\ result.existing = regions[event.request.ptr]
    /\ result.existing.align # event.request.align
    /\ Cardinality(DOMAIN regions) > 1

\* R overlaps a live region
OverlapsLive(R) ==
    \E k \in DOMAIN regions :
        StartsInside(R, regions[k]) \/ ReachesInto(R, regions[k])

\* the live region keyed at R's address differs from R in size and alignment
LiveWithOtherSizeAndAlign(R) ==
    /\ R.ptr \in DOMAIN regions
    /\ regions[R.ptr].size # R.size
    /\ regions[R.ptr].align # R.align

\* the value returned by a push is Ok or one violation
OneViolation(r) ==
    r.tag \in {"Ok", "MisalignedAlloc", "ConflictingAlloc", "IncompleteFree",
               "MisalignedFree", "MissingFree"}

\* C33: the checks of a push are applied in a fixed order and a push returns
\* one violation at most: an Alloc that is misaligned and overlaps a live
\* region returns MisalignedAlloc, not ConflictingAlloc, and a Free at a
\* live address that differs from the live region in size and in alignment
\* returns IncompleteFree, not MisalignedFree.
C33_ChecksHaveAFixedOrder ==
    [][(event' # NoEvent)
        => /\ OneViolation(result')
           /\ (/\ event'.type = "Alloc"
               /\ ~MultipleOf(event'.request.ptr, event'.request.align)
               /\ OverlapsLive(event'.request))
              => result' = MisalignedAlloc(event'.request)
           /\ (/\ event'.type = "Free"
               /\ LiveWithOtherSizeAndAlign(event'.request))
              => result' = IncompleteFree(event'.request,
                                          regions[event'.request.ptr])]_vars

\* C33 witness: a misaligned Alloc into the bytes of a live region was
\* refused as misaligned.
C33_Witness ==
    /\ event.type = "Alloc"
    /\ result = MisalignedAlloc(event.request)
    /\ OverlapsLive(event.request)
    /\ find_region_overlaps(regions, event.request) # <<>>

\* the push that has just returned gave a violation
Refused == event' # NoEvent /\ result' \notin {Ok, Panic}

\* the step is a Realloc that was not refused for a missing copy and whose
\* free part succeeded: the freed region was live as announced and is gone,
\* with its bytes
FreePartApplied ==
    /\ event'.type = "Realloc"
    /\ event'.is_relocated # No
    /\ LiveAs(event'.free)
    /\ regions' = Remove(regions, event'.free.ptr)
    /\ memory_used' = memory_used - event'.free.size

\* C34 as stated: every push that returns a violation leaves the live
\* regions and memory_used exactly as they were before the push, for every
\* event variant, a Realloc whose free part succeeds and whose alloc part
\* fails included.
C34_RefusedPushChangesNothing ==
    [][Refused => After = Before]_vars

\* C34 amended: a push that returns a violation leaves the live regions and
\* memory_used as they were, except a Realloc whose free part succeeds and
\* whose alloc part fails: it returns the alloc's violation and leaves the
\* free applied.
C34_RefusedPushKeepsAtMostTheFree ==
    [][Refused
        => \/ After = Before
           \/ /\ FreePartApplied
              /\ result'.tag \in {"MisalignedAlloc", "ConflictingAlloc"}]_vars

\* C34 witness: a Realloc was refused as misaligned after its free part had
\* removed a region that held bytes, while another region is live.
C34_Witness ==
    /\ event.type = "Realloc"
    /\ result = MisalignedAlloc(event.alloc)
    /\ event.free.size > 0
    /\ event.free.ptr \notin DOMAIN regions
    /\ DOMAIN regions # {}

\* the step is a Realloc in place: its free part names a live region as it
\* is recorded, its alloc part has the same address and alignment and
\* another size, and the contents were not seen to be left behind
InPlaceRealloc ==
    /\ event'.type = "Realloc"
    /\ event'.is_relocated # No
    /\ LiveAs(event'.free)
    /\ event'.alloc.ptr = event'.free.ptr
    /\ event'.alloc.align = event'.free.align
    /\ event'.alloc.size # event'.free.size

\* R overlaps no live region other than the one keyed at its own address
OverlapsNoOther(R) ==
    \A k \in DOMAIN regions \ {R.ptr} :
        ~StartsInside(R, regions[k]) /\ ~ReachesInto(R, regions[k])

\* C35: a Realloc in place is accepted: when F is live and a Realloc with
\* is_relocated other than Some(false) frees F and allocates a region at F's
\* address, with F's alignment and a larger or smaller size, that overlaps
\* no other live region, the push returns Ok (the free is applied before the
\* overlap check of the alloc); afterwards the new region is live and F is
\* not.
C35_InPlaceReallocIsAccepted ==
    [][(InPlaceRealloc /\ OverlapsNoOther(event'.alloc))
        => /\ result' = Ok
           /\ event'.alloc.ptr \in DOMAIN regions'
           /\ regions'[event'.alloc.ptr] = event'.alloc]_vars

\* what the push of the i-th event of the log returns during the replay
Returned(i) == push(LiveBefore(i), data[i]).result

\* the positions of the events of the log whose push fails, in log order
FailingEvents ==
    SelectSeq([i \in 1..Len(data) |-> i], LAMBDA i : Returned(i) # Ok)

\* C36: validate appends in a fixed order: first the violations of the
\* failing events in log order, one per failing event, then the Leaked
\* entries, one per region still live, in ascending address order; the
\* entries the list held before the call stay where they were.
C36_ValidateAppendsInOrder ==
    Validated =>
        LET n == Len(FailingEvents) IN
        /\ Len(errors) >= Len(op.out)
        /\ SubSeq(errors, 1, Len(op.out)) = op.out
        /\ Len(Appended) = n + Cardinality(DOMAIN regions)
        /\ \A j \in 1..n : Appended[j] = Returned(FailingEvents[j])
        /\ \A j \in (n + 1)..Len(Appended) :
              /\ Appended[j].tag = "Leaked"
              /\ Appended[j].alloc.ptr \in DOMAIN regions
              /\ Appended[j].alloc = regions[Appended[j].alloc.ptr]
              /\ \A k \in (j + 1)..Len(Appended) :
                    Appended[j].alloc.ptr < Appended[k].alloc.ptr

\* C36 witness: validate was given a list that held entries already and
\* appended the violation of a failing event followed by two Leaked entries
\* for regions that were allocated in descending address order.
C36_Witness ==
    /\ Validated
    /\ Len(op.out) > 0
    /\ Len(Appended) = 3
    /\ Appended[1].tag \notin {"Leaked", "Ok"}
    /\ Appended[2].tag = "Leaked"
    /\ Appended[3].tag = "Leaked"
    /\ \E i \in 1..Len(data) : \E j \in (i + 1)..Len(data) :
          /\ data[i] = Alloc(Appended[3].alloc)
          /\ data[j] = Alloc(Appended[2].alloc)

\* the sum of the sizes of the regions of a map
RECURSIVE TotalSize(_)
TotalSize(map) ==
    IF DOMAIN map = {} THEN 0
    ELSE LET k == CHOOSE a \in DOMAIN map : TRUE
         IN map[k].size + TotalSize(Remove(map, k))

\* C37: in every reachable state of the machine memory_used is the sum of
\* the sizes of the live regions: it is 0 in a new machine and whenever the
\* map is empty, as after a sequence in which every successful Alloc was
\* matched by a successful Free, and it never goes below 0.
C37_MemoryUsedIsLiveSize ==
    /\ memory_used = TotalSize(regions)
    /\ memory_used >= 0

\* the Alloc that has just returned passed the alignment check and the
\* overlap search
PassedTheChecks ==
    /\ event'.type = "Alloc"
    /\ result'.tag \notin {"MisalignedAlloc", "ConflictingAlloc"}

\* C38: the assertion on the insert of the Alloc arm always holds: whenever
\* an Alloc passes the alignment check and the overlap search no live
\* region is keyed at the requested address, so the insert replaces no
\* entry; an aligned request at the exact address of a live region, also
\* of one without bytes, is refused as conflicting before the insert.
C38_InsertNeverReplaces ==
    [][/\ PassedTheChecks
          => /\ event'.request.ptr \notin DOMAIN regions
             /\ result' = Ok
             /\ \A k \in DOMAIN regions :
                   k \in DOMAIN regions' /\ regions'[k] = regions[k]
       /\ (/\ event'.type = "Alloc"
           /\ MultipleOf(event'.request.ptr, event'.request.align)
           /\ event'.request.ptr \in DOMAIN regions)
          => result'.tag = "ConflictingAlloc"]_vars

\* C38 witness: in a build with debug assertions a region without bytes was
\* inserted next to two live regions, one of them without bytes as well.
C38_Witness ==
    /\ debug_assertions
    /\ event.type = "Alloc"
    /\ result = Ok
    /\ event.request.size = 0
    /\ regions[event.request.ptr] = event.request
    /\ Cardinality(DOMAIN regions) = 3
    /\ \E k \in DOMAIN regions \ {event.request.ptr} : regions[k].size = 0

\* C39: the log of the thread is never borrowed re-entrantly: while a hook
\* method holds the exclusive borrow of the state to push its event, the
\* allocation Events::push makes to grow the storage, also one for which
\* the delegate returns null, has no event to record, so the hook neither
\* borrows the state nor pushes again and the call does not panic.
C39_GrowthNeverBorrowsAgain ==
    [][HookStep /\ op'.grown
         => /\ ~reentered(op'.growth.event)
            /\ result' # Panic]_vars

====
